---- MODULE Spec2Model ----
(***************************************************************************)
(* Round-based trading simulation of test.py: order generation behind the  *)
(* reputation gate, positional matching of shuffled BUY and SELL orders,   *)
(* settlement with the local reputation update, the per-round reputation   *)
(* query with its local fallback, and the round summary.                   *)
(*                                                                         *)
(* Participants are the integers 1..N (user<uid> in the script). The three *)
(* parameters of the script (participants, rounds, threshold) are fixed at *)
(* start-up and held in variables, so that runs of several configurations  *)
(* are covered; so is the ledger's answer to the reputation query.         *)
(* Text read from the peer CLI is a sequence of one-character strings.     *)
(* A Python value that may be an int or a str is a record [kind, val].     *)
(***************************************************************************)
EXTENDS Integers, Sequences, FiniteSets, TLC

\* Participants of the configured run (the script runs 100).
USER_COUNT == 2
ROUND_COUNT == 4
REPUTATION_THRESHOLD == 20
REP_INIT_MIN == 40
REP_INIT_MAX == 60
DEFAULT_PENALTY == 5
SUCCESS_REWARD == 1

\* Initial reputations drawn by random.randint(40, 60): the two extremes.
InitialReputations == {REP_INIT_MIN, REP_INIT_MAX}

\* Values random.randint(1, 10) and random.randint(50, 100) are drawn from.
EnergyAmounts == {1, 10}
Prices == {50}

\* Exit codes of the peer CLI: 0 is success, anything else a failure.
ReturnCodes == {0, 1}

\* Configurations of the three parameters at the top of the script: the
\* configured one, and others in which the gate excludes participants and
\* in which a round settles more than one trade.
Configured ==
    [users |-> USER_COUNT, rounds |-> ROUND_COUNT,
     threshold |-> REPUTATION_THRESHOLD]

Configs ==
    { Configured,
      [users |-> USER_COUNT + 1, rounds |-> 3, threshold |-> 56],
      [users |-> USER_COUNT + 2, rounds |-> 2, threshold |-> 56] }

\* What the ledger answers to QueryReputation during a run: the peer CLI
\* fails, prints an integer, or prints something that is no integer.
QueryReplies ==
    { [returncode |-> 1, stdout |-> <<>>],
      [returncode |-> 0, stdout |-> <<"4", "5", "\n">>],
      [returncode |-> 0, stdout |-> <<" ", "n", "/", "a">>] }

VARIABLES
    users,            \* the list user1 .. userN of this run
    threshold,        \* REPUTATION_THRESHOLD of this run
    round_count,      \* ROUND_COUNT of this run
    query_reply,      \* the ledger's answer to QueryReputation in this run
    initial,          \* reputation as drawn at start-up (never written again)
    reputation,       \* user -> local reputation
    rnd,              \* current round, 1..round_count
    pc,               \* "orders" | "settle" | "query" | "stats" | "done"
    user,             \* position of the running "for user in users" loop
    orders,           \* this round's order records
    buy_orders,       \* shuffled BUY orders of this round
    sell_orders,      \* shuffled SELL orders of this round
    match_count,
    i,                \* position of the settlement loop (1-based)
    success_count,
    default_count,
    invoke_cmd,       \* last chaincode invocation issued
    result,           \* last subprocess result
    rep_history,
    default_records,
    round_stats

vars == << users, threshold, round_count, query_reply, initial,
           reputation, rnd, pc, user, orders,
           buy_orders, sell_orders, match_count, i, success_count,
           default_count, invoke_cmd, result, rep_history, default_records,
           round_stats >>

----------------------------------------------------------------------------
\* Pure helpers

Min(a, b) == IF a < b THEN a ELSE b

Last(s) == s[Len(s)]

SelectType(os, t) == SelectSeq(os, LAMBDA o : o.type = t)

\* The list is resampled with replacement instead of permuted.
Shuffles_WithReplacement(s) == [1 .. Len(s) -> 1 .. Len(s)]

\* All orderings random.shuffle can leave a list in.
Shuffles(s) ==
    { p \in [1 .. Len(s) -> 1 .. Len(s)] :
        \A a, b \in 1 .. Len(s) : a # b => p[a] # p[b] }

Permuted(s, p) == [k \in 1 .. Len(s) |-> s[p[k]]]

OrderId(r, u) == << "ORD", r, "_", "user", u >>

Whitespace == {" ", "\n", "\t", "\r", "\f"}

Digits == {"0", "1", "2", "3", "4", "5", "6", "7", "8", "9"}

DigitVal(c) ==
    CASE c = "0" -> 0 [] c = "1" -> 1 [] c = "2" -> 2 [] c = "3" -> 3
      [] c = "4" -> 4 [] c = "5" -> 5 [] c = "6" -> 6 [] c = "7" -> 7
      [] c = "8" -> 8 [] c = "9" -> 9

RECURSIVE LStrip(_)
LStrip(s) ==
    IF s # <<>> /\ Head(s) \in Whitespace THEN LStrip(Tail(s)) ELSE s

RECURSIVE RStrip(_)
RStrip(s) ==
    IF s # <<>> /\ Last(s) \in Whitespace
    THEN RStrip(SubSeq(s, 1, Len(s) - 1))
    ELSE s

\* str.strip()
Strip(s) == RStrip(LStrip(s))

Unsigned(s) ==
    IF s # <<>> /\ Head(s) \in {"+", "-"} THEN Tail(s) ELSE s

\* int(s) succeeds: an optional sign, then decimal digits, where single
\* underscores may stand between digits.
IsIntLiteral(s) ==
    LET d == Unsigned(s)
    IN /\ d # <<>>
       /\ \A k \in 1 .. Len(d) : d[k] \in Digits \cup {"_"}
       /\ d[1] \in Digits
       /\ d[Len(d)] \in Digits
       /\ \A k \in 1 .. Len(d) - 1 : ~ (d[k] = "_" /\ d[k + 1] = "_")

RECURSIVE DigitsValue(_)
DigitsValue(s) ==
    IF s = <<>> THEN 0
    ELSE IF Last(s) = "_" THEN DigitsValue(SubSeq(s, 1, Len(s) - 1))
    ELSE 10 * DigitsValue(SubSeq(s, 1, Len(s) - 1)) + DigitVal(Last(s))

IntOf(s) ==
    IF Head(s) = "-" THEN 0 - DigitsValue(Unsigned(s))
    ELSE DigitsValue(Unsigned(s))

PyInt(v) == [kind |-> "int", val |-> v]
PyStr(s) == [kind |-> "str", val |-> s]

\* The local value is recorded whatever the query returned.
RepValue_LocalAlways(res, local) == PyInt(local)

\* rep_value of the query step for a given result and local value.
RepValue(res, local) ==
    IF res.returncode = 0
    THEN IF IsIntLiteral(Strip(res.stdout))
         THEN PyInt(IntOf(Strip(res.stdout)))
         ELSE PyStr(Strip(res.stdout))
    ELSE PyInt(local)

NoCmd == [fn |-> "none"]
NoResult == [returncode |-> 0, stdout |-> <<>>]

----------------------------------------------------------------------------
\* Start-up

InitRun(cfg) ==
    /\ users = [uid \in 1 .. cfg.users |-> uid]
    /\ threshold = cfg.threshold
    /\ round_count = cfg.rounds
    /\ query_reply \in QueryReplies
    /\ initial \in [1 .. cfg.users -> InitialReputations]
    /\ reputation = initial
    /\ rnd = 1
    /\ pc = "orders"
    /\ user = 1
    /\ orders = <<>>
    /\ buy_orders = <<>>
    /\ sell_orders = <<>>
    /\ match_count = 0
    /\ i = 1
    /\ success_count = 0
    /\ default_count = 0
    /\ invoke_cmd = NoCmd
    /\ result = NoResult
    /\ rep_history = <<>>
    /\ default_records = <<>>
    /\ round_stats = <<>>

Init == \E cfg \in Configs : InitRun(cfg)

----------------------------------------------------------------------------
\* 1. Order generation

UserCount == Len(users)

\* The element the running "for user in users" loop is at.
CurrentUser == users[user]

\* Gate written with > instead of >=.
Eligible_Strict(u) == reputation[u] > threshold

\* Gate evaluated on the reputation drawn at start-up.
Eligible_AtStartup(u) == initial[u] >= threshold

Eligible(u) == reputation[u] >= threshold

PlaceOrder ==
    /\ pc = "orders"
    /\ user <= UserCount
    /\ Eligible(CurrentUser)
    /\ \E order_type \in {"BUY", "SELL"}, energy_amount \in EnergyAmounts,
          price \in Prices, rc \in ReturnCodes :
         /\ orders' = Append(orders,
                [order_id |-> OrderId(rnd, CurrentUser),
                 user |-> CurrentUser, type |-> order_type])
         /\ invoke_cmd' = [fn |-> "CreateOrder",
                           order_id |-> OrderId(rnd, CurrentUser),
                           user |-> CurrentUser,
                           energy_amount |-> energy_amount, price |-> price,
                           order_type |-> order_type]
         /\ result' = [returncode |-> rc, stdout |-> <<>>]
    /\ user' = user + 1
    /\ UNCHANGED << users, threshold, round_count, query_reply,
                    initial, reputation, rnd, pc,
                    buy_orders, sell_orders, match_count, i, success_count,
                    default_count, rep_history, default_records, round_stats >>

SkipUser ==
    /\ pc = "orders"
    /\ user <= UserCount
    /\ ~ Eligible(CurrentUser)
    /\ user' = user + 1
    /\ UNCHANGED << users, threshold, round_count, query_reply,
                    initial, reputation, rnd, pc,
                    orders, buy_orders, sell_orders, match_count, i,
                    success_count, default_count, invoke_cmd, result,
                    rep_history, default_records, round_stats >>

----------------------------------------------------------------------------
\* 2. Matching

\* The two counters are initialised once, before the round loop.
MatchOrders_CountersNotReset ==
    /\ pc = "orders"
    /\ user = UserCount + 1
    /\ \E pb \in Shuffles(SelectType(orders, "BUY")),
          ps \in Shuffles(SelectType(orders, "SELL")) :
         /\ buy_orders' = Permuted(SelectType(orders, "BUY"), pb)
         /\ sell_orders' = Permuted(SelectType(orders, "SELL"), ps)
    /\ match_count' = Min(Len(SelectType(orders, "BUY")),
                          Len(SelectType(orders, "SELL")))
    /\ i' = 1
    /\ user' = 1
    /\ pc' = IF match_count' = 0 THEN "query" ELSE "settle"
    /\ UNCHANGED << users, threshold, round_count, query_reply,
                    initial, reputation, rnd, orders,
                    success_count, default_count,
                    invoke_cmd, result, rep_history, default_records,
                    round_stats >>

MatchOrders ==
    /\ pc = "orders"
    /\ user = UserCount + 1
    /\ \E pb \in Shuffles(SelectType(orders, "BUY")),
          ps \in Shuffles(SelectType(orders, "SELL")) :
         /\ buy_orders' = Permuted(SelectType(orders, "BUY"), pb)
         /\ sell_orders' = Permuted(SelectType(orders, "SELL"), ps)
    /\ match_count' = Min(Len(SelectType(orders, "BUY")),
                          Len(SelectType(orders, "SELL")))
    /\ success_count' = 0
    /\ default_count' = 0
    /\ i' = 1
    /\ user' = 1
    /\ pc' = IF match_count' = 0 THEN "query" ELSE "settle"
    /\ UNCHANGED << users, threshold, round_count, query_reply,
                    initial, reputation, rnd, orders,
                    invoke_cmd, result, rep_history, default_records,
                    round_stats >>

----------------------------------------------------------------------------
\* 3. Settlement

AfterTrade == IF i = match_count THEN "query" ELSE "settle"

\* Both parties of a defaulted trade are penalised.
DefaultUpdate_Both(rep, defaulter, non_defaulter) ==
    [u \in DOMAIN rep |->
        IF u \in {defaulter, non_defaulter} THEN rep[u] - DEFAULT_PENALTY
        ELSE rep[u]]

\* The penalty is applied before and again after the IssueToken call.
DefaultUpdate_Twice(rep, defaulter, non_defaulter) ==
    [rep EXCEPT ![defaulter] = @ - DEFAULT_PENALTY - DEFAULT_PENALTY]

\* reputation[defaulter] -= 5; the non-defaulter keeps its value.
DefaultUpdate(rep, defaulter, non_defaulter) ==
    [rep EXCEPT ![defaulter] = @ - DEFAULT_PENALTY]

\* The seller's increment is missing.
SuccessUpdate_BuyerOnly(rep, buyer, seller) ==
    [rep EXCEPT ![buyer] = @ + SUCCESS_REWARD]

\* The second increment names the buyer again.
SuccessUpdate_BuyerTwice(rep, buyer, seller) ==
    [rep EXCEPT ![buyer] = @ + SUCCESS_REWARD + SUCCESS_REWARD]

\* reputation[buyer] += 1; reputation[seller] += 1
SuccessUpdate(rep, buyer, seller) ==
    LET r1 == [rep EXCEPT ![buyer] = @ + SUCCESS_REWARD]
    IN [r1 EXCEPT ![seller] = @ + SUCCESS_REWARD]

SettleDefault ==
    /\ pc = "settle"
    /\ i <= match_count
    /\ LET buyer_order == buy_orders[i]
           seller_order == sell_orders[i]
           buyer == buyer_order.user
           seller == seller_order.user
       IN \E buyer_defaults \in BOOLEAN, rc \in ReturnCodes :
            LET defaulter == IF buyer_defaults THEN buyer ELSE seller
                non_defaulter == IF buyer_defaults THEN seller ELSE buyer
            IN /\ default_count' = default_count + 1
               /\ invoke_cmd' = [fn |-> "IssueToken",
                                 buy_id |-> buyer_order.order_id,
                                 sell_id |-> seller_order.order_id,
                                 outcome |-> "DEFAULT",
                                 defaulter |-> PyInt(defaulter)]
               /\ result' = [returncode |-> rc, stdout |-> <<>>]
               /\ reputation' =
                    DefaultUpdate(reputation, defaulter, non_defaulter)
               /\ default_records' = Append(default_records,
                                        [round |-> rnd, user |-> defaulter])
    /\ i' = i + 1
    /\ pc' = AfterTrade
    /\ UNCHANGED << users, threshold, round_count, query_reply,
                    initial, rnd, user, orders,
                    buy_orders, sell_orders, match_count, success_count,
                    rep_history, round_stats >>

\* The local update is applied only when IssueToken was committed.
SettleSuccess_OnlyIfCommitted ==
    /\ pc = "settle"
    /\ i <= match_count
    /\ LET buyer_order == buy_orders[i]
           seller_order == sell_orders[i]
           buyer == buyer_order.user
           seller == seller_order.user
       IN \E rc \in ReturnCodes :
            /\ success_count' = success_count + 1
            /\ invoke_cmd' = [fn |-> "IssueToken",
                              buy_id |-> buyer_order.order_id,
                              sell_id |-> seller_order.order_id,
                              outcome |-> "SUCCESS",
                              defaulter |-> PyStr(<<>>)]
            /\ result' = [returncode |-> rc, stdout |-> <<>>]
            /\ reputation' = IF rc = 0
                             THEN SuccessUpdate(reputation, buyer, seller)
                             ELSE reputation
    /\ i' = i + 1
    /\ pc' = AfterTrade
    /\ UNCHANGED << users, threshold, round_count, query_reply,
                    initial, rnd, user, orders,
                    buy_orders, sell_orders, match_count, default_count,
                    rep_history, default_records, round_stats >>

SettleSuccess ==
    /\ pc = "settle"
    /\ i <= match_count
    /\ LET buyer_order == buy_orders[i]
           seller_order == sell_orders[i]
           buyer == buyer_order.user
           seller == seller_order.user
       IN \E rc \in ReturnCodes :
            /\ success_count' = success_count + 1
            /\ invoke_cmd' = [fn |-> "IssueToken",
                              buy_id |-> buyer_order.order_id,
                              sell_id |-> seller_order.order_id,
                              outcome |-> "SUCCESS",
                              defaulter |-> PyStr(<<>>)]
            /\ result' = [returncode |-> rc, stdout |-> <<>>]
            /\ reputation' = SuccessUpdate(reputation, buyer, seller)
    /\ i' = i + 1
    /\ pc' = AfterTrade
    /\ UNCHANGED << users, threshold, round_count, query_reply,
                    initial, rnd, user, orders,
                    buy_orders, sell_orders, match_count, default_count,
                    rep_history, default_records, round_stats >>

----------------------------------------------------------------------------
\* 4. Reputation query

QueryReputation ==
    /\ pc = "query"
    /\ user <= UserCount
    /\ invoke_cmd' = [fn |-> "QueryReputation", user |-> CurrentUser]
    /\ result' = query_reply
    /\ rep_history' = Append(rep_history,
            [round |-> rnd, user |-> CurrentUser,
             reputation |-> RepValue(result', reputation[CurrentUser])])
    /\ user' = user + 1
    /\ pc' = IF user = UserCount THEN "stats" ELSE "query"
    /\ UNCHANGED << users, threshold, round_count, query_reply,
                    initial, reputation, rnd, orders,
                    buy_orders, sell_orders, match_count, i, success_count,
                    default_count, default_records, round_stats >>

----------------------------------------------------------------------------
\* Round summary and next round

EndRound ==
    /\ pc = "stats"
    /\ round_stats' = Append(round_stats,
            [round |-> rnd, orders |-> Len(orders), matched |-> match_count,
             success |-> success_count, defaults |-> default_count,
             excluded_users |-> UserCount - Len(orders)])
    /\ IF rnd < round_count
       THEN /\ rnd' = rnd + 1
            /\ pc' = "orders"
            /\ orders' = <<>>
            /\ user' = 1
       ELSE /\ pc' = "done"
            /\ UNCHANGED << rnd, orders, user >>
    /\ UNCHANGED << users, threshold, round_count, query_reply,
                    initial, reputation, buy_orders,
                    sell_orders, match_count, i, success_count, default_count,
                    invoke_cmd, result, rep_history, default_records >>

----------------------------------------------------------------------------

Next ==
    \/ PlaceOrder
    \/ SkipUser
    \/ MatchOrders
    \/ SettleDefault
    \/ SettleSuccess
    \/ QueryReputation
    \/ EndRound

Spec == Init /\ [][Next]_vars

----------------------------------------------------------------------------
\* Properties

OrdersOf(u) == Cardinality({k \in 1 .. Len(orders) : orders[k].user = u})

Buys == Len(SelectType(orders, "BUY"))
Sells == Len(SelectType(orders, "SELL"))

IsConfigured ==
    threshold = REPUTATION_THRESHOLD /\ round_count = ROUND_COUNT

\* The orders present while a round's orders are generated, and the effect
\* of one pass of the order loop.
C1_GateState ==
    pc = "orders" =>
        \A k \in 1 .. UserCount :
            OrdersOf(users[k]) =
                IF k < user /\ reputation[users[k]] >= threshold THEN 1 ELSE 0

C1_GateStep ==
    (pc = "orders" /\ user <= UserCount) =>
        IF reputation[CurrentUser] < threshold
        THEN orders' = orders /\ invoke_cmd' = invoke_cmd
        ELSE /\ Len(orders') = Len(orders) + 1
             /\ Last(orders').user = CurrentUser
             /\ invoke_cmd'.fn = "CreateOrder"
             /\ invoke_cmd'.user = CurrentUser
             /\ invoke_cmd'.order_id = Last(orders').order_id

\* C1: while a round's orders are generated, a participant the loop has
\* passed has exactly one order if its reputation is at or above the
\* threshold and none if it is below, and a participant below the threshold
\* gets neither an order record nor a CreateOrder invocation.
C1_EligibilityGate == [] C1_GateState /\ [][C1_GateStep]_vars

C1_Witness ==
    /\ pc = "orders"
    /\ user = UserCount + 1
    /\ \E u, v \in DOMAIN reputation :
         /\ reputation[u] < threshold /\ OrdersOf(u) = 0
         /\ reputation[v] >= threshold /\ OrdersOf(v) = 1

\* C2: from matching to the end of the round, the number of matched trades
\* and the number of settled trades (success_count + default_count) are at
\* most the smaller of the round's BUY and SELL counts.
C2_MatchedAtMostMin ==
    pc \in {"settle", "query", "stats"} =>
        /\ match_count <= Min(Buys, Sells)
        /\ success_count + default_count <= match_count

C2_Witness ==
    /\ pc = "stats"
    /\ Buys > Sells
    /\ Sells = 1
    /\ success_count + default_count = 1

\* The effect of settling a defaulted trade.
C3_DefaultStep ==
    (pc = "settle" /\ default_count' # default_count) =>
        LET b == buy_orders[i].user
            s == sell_orders[i].user
            changed == {u \in DOMAIN reputation :
                            reputation'[u] # reputation[u]}
        IN /\ b # s
           /\ Cardinality(changed) = 1
           /\ changed \subseteq {b, s}
           /\ \A d \in changed :
                /\ reputation'[d] = reputation[d] - 5
                /\ default_records' =
                     Append(default_records, [round |-> rnd, user |-> d])

\* C3: a defaulted trade lowers the reputation of exactly one participant,
\* one of the two distinct parties of the pair, by 5, leaves every other
\* reputation as it was, and appends that participant with the current
\* round to default_records.
C3_DefaultPenalty == [][C3_DefaultStep]_vars

C3_Witness ==
    /\ rnd = 1
    /\ pc \in {"settle", "query"}
    /\ invoke_cmd.fn = "IssueToken"
    /\ invoke_cmd.outcome = "DEFAULT"
    /\ UserCount >= 3
    /\ Len(orders) = UserCount
    /\ \E d \in DOMAIN reputation :
         /\ invoke_cmd.defaulter = PyInt(d)
         /\ reputation[d] = initial[d] - 5
         /\ default_records = << [round |-> 1, user |-> d] >>
         /\ \A u \in DOMAIN reputation \ {d} : reputation[u] = initial[u]

\* The effect of settling a successful trade.
C4_SuccessStep ==
    (pc = "settle" /\ success_count' # success_count) =>
        LET b == buy_orders[i].user
            s == sell_orders[i].user
        IN /\ b # s
           /\ \A u \in DOMAIN reputation :
                reputation'[u] =
                    IF u \in {b, s} THEN reputation[u] + 1 ELSE reputation[u]

\* C4: a successful trade raises the reputation of exactly two participants,
\* the buyer and the seller of the pair, who differ, by 1 each and leaves
\* every other reputation as it was.
C4_SuccessReward == [][C4_SuccessStep]_vars

C4_Witness ==
    /\ rnd = 1
    /\ pc \in {"settle", "query"}
    /\ invoke_cmd.fn = "IssueToken"
    /\ invoke_cmd.outcome = "SUCCESS"
    /\ UserCount = 3
    /\ Len(orders) = UserCount
    /\ Cardinality({u \in DOMAIN reputation :
                        reputation[u] = initial[u] + 1}) = 2
    /\ Cardinality({u \in DOMAIN reputation :
                        reputation[u] = initial[u]}) = 1

\* Rounds whose settlement has begun.
RoundsSettled == IF pc = "orders" THEN rnd - 1 ELSE rnd

\* C5: every initial reputation is in 40..60; after r rounds a reputation
\* lies between initial - 5r and initial + r; in a run of the configured
\* threshold and round count it is therefore always in 20..64 and never
\* below REPUTATION_THRESHOLD.
C5_ReputationBounds ==
    /\ pc \in {"orders", "done"} => RoundsSettled = Len(round_stats)
    /\ \A u \in DOMAIN reputation :
         /\ initial[u] \in 40 .. 60
         /\ reputation[u] >= initial[u] - 5 * RoundsSettled
         /\ reputation[u] <= initial[u] + RoundsSettled
         /\ IsConfigured =>
              /\ reputation[u] \in 20 .. 64
              /\ reputation[u] >= REPUTATION_THRESHOLD

C5_Witness ==
    /\ IsConfigured
    /\ pc = "done"
    /\ Len(round_stats) = ROUND_COUNT
    /\ \E u \in DOMAIN reputation :
         initial[u] = 40 /\ reputation[u] = 20

\* The effect of a step whose chaincode invocation failed, and the run's
\* progress to its last round.
C6_FailedCallStep ==
    /\ (pc = "orders" /\ user <= UserCount /\ result'.returncode # 0
          /\ reputation[CurrentUser] >= threshold) =>
            /\ Len(orders') = Len(orders) + 1
            /\ SubSeq(orders', 1, Len(orders)) = orders
            /\ Last(orders').user = CurrentUser
            /\ Last(orders').order_id = invoke_cmd'.order_id
            /\ reputation' = reputation
    /\ (pc = "settle" /\ result'.returncode # 0) =>
            LET b == buy_orders[i].user
                s == sell_orders[i].user
            IN /\ i' = i + 1
               /\ invoke_cmd'.fn = "IssueToken"
               /\ invoke_cmd'.outcome = "SUCCESS" =>
                    \A u \in DOMAIN reputation :
                        reputation'[u] = IF u \in {b, s}
                                         THEN reputation[u] + 1
                                         ELSE reputation[u]
               /\ invoke_cmd'.outcome = "DEFAULT" =>
                    /\ invoke_cmd'.defaulter.val \in {b, s}
                    /\ \A u \in DOMAIN reputation :
                         reputation'[u] =
                            IF u = invoke_cmd'.defaulter.val
                            THEN reputation[u] - 5
                            ELSE reputation[u]

C6_RunCompletes ==
    /\ pc # "done" => ENABLED Next
    /\ pc = "done" => rnd = round_count /\ Len(round_stats) = round_count

\* C6: a step whose CreateOrder or IssueToken call returned a non-zero exit
\* code still appends the order, or still applies +1/+1 on success and -5
\* to the defaulter on default; the run never stops before the last round
\* and ends with round_count round summaries.
C6_FailedCallNonFatal == [] C6_RunCompletes /\ [][C6_FailedCallStep]_vars

C6_Witness ==
    /\ rnd = 1
    /\ pc \in {"settle", "query"}
    /\ invoke_cmd.fn = "IssueToken"
    /\ invoke_cmd.outcome = "DEFAULT"
    /\ result.returncode # 0
    /\ Len(orders) >= 2
    /\ \E d \in DOMAIN reputation :
         /\ invoke_cmd.defaulter = PyInt(d)
         /\ reputation[d] = initial[d] - 5

\* What the ledger's answer reads as: an integer, or the text without its
\* surrounding blanks.
LedgerValue(out) ==
    CASE out = <<"4", "5", "\n">> -> PyInt(45)
      [] out = <<" ", "n", "/", "a">> -> PyStr(<<"n", "/", "a">>)

\* The shape of rep_history, and the effect of one query.
C7_HistoryShape ==
    /\ Len(rep_history) =
         UserCount * (rnd - 1)
           + (CASE pc = "query" -> user - 1
                [] pc \in {"stats", "done"} -> UserCount
                [] OTHER -> 0)
    /\ pc = "done" => Len(rep_history) = UserCount * round_count
    /\ \A k \in 1 .. Len(rep_history) :
         /\ rep_history[k].round = ((k - 1) \div UserCount) + 1
         /\ rep_history[k].user = users[((k - 1) % UserCount) + 1]

C7_QueryStep ==
    pc = "query" =>
        /\ reputation' = reputation
        /\ rep_history' = Append(rep_history,
              [round |-> rnd, user |-> CurrentUser,
               reputation |->
                  IF result'.returncode # 0
                  THEN PyInt(reputation[CurrentUser])
                  ELSE LedgerValue(result'.stdout)])

\* C7: every round appends one snapshot per participant to rep_history, in
\* the order of users (UserCount per round, UserCount * round_count at the
\* end); a snapshot holds the local reputation when the query failed and
\* the ledger's value when it succeeded; the query leaves the local
\* reputations as they were.
C7_ReputationSnapshots == [] C7_HistoryShape /\ [][C7_QueryStep]_vars

C7_Witness ==
    /\ pc = "done"
    /\ result.returncode # 0
    /\ Len(rep_history) = UserCount * round_count
    /\ \E u \in DOMAIN reputation :
         /\ reputation[u] # initial[u]
         /\ Last(rep_history).user = u
         /\ Last(rep_history).reputation = PyInt(reputation[u])

Range(s) == {s[k] : k \in 1 .. Len(s)}

\* C8: the trades of a round pair the k-th shuffled BUY order with the
\* k-th shuffled SELL order; both are orders created in this round, their
\* owners differ, no participant is in two pairs, and the IssueToken call
\* of a settlement names the two orders of its pair.
C8_PairsOfThisRound ==
    pc \in {"settle", "query", "stats", "done"} =>
        /\ match_count <= Len(buy_orders)
        /\ match_count <= Len(sell_orders)
        /\ \A k \in 1 .. match_count :
             /\ buy_orders[k] \in Range(orders)
             /\ sell_orders[k] \in Range(orders)
             /\ buy_orders[k].type = "BUY"
             /\ sell_orders[k].type = "SELL"
             /\ buy_orders[k].order_id = OrderId(rnd, buy_orders[k].user)
             /\ sell_orders[k].order_id = OrderId(rnd, sell_orders[k].user)
             /\ buy_orders[k].user # sell_orders[k].user
        /\ Cardinality({buy_orders[k].user : k \in 1 .. match_count}
                         \cup {sell_orders[k].user : k \in 1 .. match_count})
             = 2 * match_count
        /\ \A u \in DOMAIN reputation : OrdersOf(u) <= 1
        /\ (pc \in {"settle", "query"} /\ invoke_cmd.fn = "IssueToken") =>
             /\ i - 1 \in 1 .. match_count
             /\ invoke_cmd.buy_id = buy_orders[i - 1].order_id
             /\ invoke_cmd.sell_id = sell_orders[i - 1].order_id

C8_Witness ==
    /\ pc = "query"
    /\ rnd = 2
    /\ match_count = 2
    /\ success_count + default_count = 2
    /\ invoke_cmd.fn = "IssueToken"
    /\ invoke_cmd.buy_id[2] = 2

\* A participant below the threshold: its orders, and what a step may do.
C9_ExcludedState ==
    pc = "orders" =>
        \A u \in DOMAIN reputation :
            reputation[u] < threshold => OrdersOf(u) = 0

C9_ExcludedStep ==
    \A u \in DOMAIN reputation :
        reputation[u] < threshold =>
            /\ reputation'[u] = reputation[u]
            /\ Len(orders') > Len(orders) => Last(orders').user # u

\* C9: a participant whose reputation is below the threshold has no order
\* while orders are generated, no step appends an order for it, and no
\* step changes its reputation.
C9_ExclusionPermanent == [] C9_ExcludedState /\ [][C9_ExcludedStep]_vars

C9_Witness ==
    /\ rnd = 3
    /\ pc = "stats"
    /\ Len(orders) = 2
    /\ \E u \in DOMAIN reputation :
         /\ initial[u] >= threshold
         /\ reputation[u] = initial[u] - 5
         /\ reputation[u] < threshold
         /\ OrdersOf(u) = 0
         /\ default_records[1] = [round |-> 1, user |-> u]
         /\ round_stats[2].excluded_users >= 1

\* C10: in a run of the configured threshold and round count every
\* reputation is at least 25 while a round's orders are generated, every
\* participant places an order, and every round summary records all
\* participants' orders and 0 excluded users.
C10_NobodyExcluded ==
    IsConfigured =>
        /\ pc = "orders" =>
             /\ \A u \in DOMAIN reputation : reputation[u] >= 25
             /\ Len(orders) = user - 1
        /\ \A k \in 1 .. Len(round_stats) :
             /\ round_stats[k].orders = UserCount
             /\ round_stats[k].excluded_users = 0

C10_Witness ==
    /\ IsConfigured
    /\ pc = "orders"
    /\ rnd = ROUND_COUNT
    /\ user = UserCount + 1
    /\ Len(orders) = UserCount
    /\ Len(round_stats) = ROUND_COUNT - 1
    /\ \E u \in DOMAIN reputation : reputation[u] = 25

====
